---- MODULE Spec2Model ----
(***************************************************************************)
(* A model of petri-js: the default Place/Transition firing rule, the      *)
(* INIT/FIRE action creators, the model/marking/sequence reducers wrapped  *)
(* by redux-undo's undoable(), and the PetriNet facade (fire, undo, redo,  *)
(* marking, sequence) over its redux store.                                *)
(*                                                                         *)
(* A JavaScript object used as a map (a marking, preconditions,            *)
(* postconditions) is a function whose DOMAIN is its set of own keys.      *)
(***************************************************************************)
EXTENDS Integers, Sequences, FiniteSets, TLC

VARIABLES
    model,        \* store.getState().model
    marking,      \* store.getState().marking  : {past, present, future}
    sequence,     \* store.getState().sequence : {past, present, future}
    seen,         \* store.getState() as the subscriber read it when it was last notified
    lastOp,       \* the facade call made last and its outcome
    pat,          \* progress of a run of the shape fire^n undo^n redo^n since construction
    branched,     \* 1: a successful fire directly followed undo calls; 2: a redo followed that
    scen,         \* progress of the README scenario on the example model
    arg_t,        \* default semantics called directly: the transition
    arg_marking,  \* default semantics called directly: the marking
    ret,          \* default semantics called directly: what the call gave
    chooseBinding, \* this.fireSemantics.chooseBinding: null or the function configured
    stores        \* two PetriNet instances: the state of the store of each

storeVars == <<model, marking, sequence>>
ghostVars == <<seen, lastOp, pat, branched, scen>>
callVars  == <<arg_t, arg_marking, ret>>
otherVars == <<chooseBinding, stores>>
vars      == <<model, marking, sequence, seen, lastOp, pat, branched, scen,
               arg_t, arg_marking, ret, chooseBinding, stores>>

---------------------------------------------------------------------------
(* Bounds *)

\* fire() is called only while fewer than MaxFires entries are in sequence()
MaxFires == 2
\* m0 gives each place 0..MaxTok0 tokens
MaxTok0 == 2
\* direct calls: arc weights 1..MaxW, token counts 0..MaxTok
MaxW == 2
MaxTok == 2

---------------------------------------------------------------------------
(* JavaScript values *)

Null == "null"

EmptyObject == [p \in {} |-> 0]

\* places a model declares, and one more that no model declares
Places == <<"p0", "p1">>
PlaceIds == {"p0", "p1", "p2"}

\* for (const p in o) enumerates own keys in insertion order
KeyOrder == <<"p0", "p1", "p2">>

InDomain(o, p) == p \in DOMAIN o

Keys(o) == SelectSeq(KeyOrder, LAMBDA p : InDomain(o, p))

HasOwnProperty(o, p) == p \in DOMAIN o

\* (o[p] || 0)
OrZero(o, p) == IF p \in DOMAIN o THEN o[p] ELSE 0

Range(s) == {s[i] : i \in 1..Len(s)}

Front(s) == SubSeq(s, 1, Len(s) - 1)

Last(s) == s[Len(s)]

---------------------------------------------------------------------------
(* Default semantics *)

\* Object.keys(t.preconditions).every((p) => marking[p] >= t.preconditions[p]);
\* undefined >= n is false
defaultIsFireable(t, m) ==
    \A p \in DOMAIN t.preconditions :
        /\ p \in DOMAIN m
        /\ m[p] >= t.preconditions[p]

Thrown(e) == [threw |-> TRUE, error |-> e, value |-> EmptyObject]

Returned(v) == [threw |-> FALSE, error |-> "none", value |-> v]

\* the check for an overdrawn place, off by one
Negative_offByOne(v) == v < -1

\* nextMarking[p] < 0
Negative(v) == v < 0

RECURSIVE defaultFireLoop(_, _, _, _)
defaultFireLoop(t, m, keys, nextMarking) ==
    IF keys = <<>> THEN Returned(nextMarking)
    ELSE LET p == Head(keys)
             v == OrZero(m, p) - OrZero(t.preconditions, p) + OrZero(t.postconditions, p)
         IN  IF ~HasOwnProperty(m, p) THEN Thrown("UnknownPlace")
             ELSE IF Negative(v) THEN Thrown("NotFireable")
             ELSE defaultFireLoop(t, m, Tail(keys), nextMarking @@ (p :> v))

\* the postconditions never added
defaultFire_noPost(t, m) ==
    defaultFireLoop([t EXCEPT !.postconditions = EmptyObject], m, Keys(m), EmptyObject)

\* the loop stops one key early
defaultFire_dropKey(t, m) == defaultFireLoop(t, m, Front(Keys(m)), EmptyObject)

\* the preconditions never taken
defaultFire_noPre(t, m) ==
    defaultFireLoop([t EXCEPT !.preconditions = EmptyObject], m, Keys(m), EmptyObject)

\* the loop runs over the places of the postconditions too
defaultFire_overPost(t, m) ==
    defaultFireLoop(t, m, Keys(m @@ t.postconditions), EmptyObject)

defaultFire(t, m) == defaultFireLoop(t, m, Keys(m), EmptyObject)

---------------------------------------------------------------------------
(* Actions *)

INIT == "@@petri-js/INIT"
FIRE == "@@petri-js/FIRE"
UNDO == "@@redux-undo/UNDO"
REDO == "@@redux-undo/REDO"
CLEAR_HISTORY == "@@redux-undo/CLEAR_HISTORY"

init(mdl) == [type |-> INIT, payload |-> [model |-> mdl]]

\* options.fireSemantics of the constructor, with the defaults
fireSemantics_chooseBinding == Null

fireSemantics_fire(t, m, binding) == defaultFire(t, m)

NoAction == [type |-> "none"]

\* the fire function runs while the action is built; what it throws leaves through
\* fireTransition and no action exists
fireTransition(transition, m, binding) ==
    LET r == fireSemantics_fire(transition, m, binding)
    IN  IF r.threw
        THEN [threw |-> TRUE, error |-> r.error, action |-> NoAction]
        ELSE [threw |-> FALSE, error |-> "none",
              action |-> [type |-> FIRE,
                          payload |-> [transition |-> transition,
                                       binding |-> binding,
                                       nextMarking |-> r.value]]]

ActionCreators_undo == [type |-> UNDO]
ActionCreators_redo == [type |-> REDO]
ActionCreators_clearHistory == [type |-> CLEAR_HISTORY]

---------------------------------------------------------------------------
(* Reducers *)

initialModel == [places |-> <<>>, transitions |-> <<>>, m0 |-> EmptyObject]

\* the default case gives the initial model
modelReducer_noDefault(state, action) ==
    IF action.type = INIT THEN action.payload.model ELSE initialModel

modelReducer(state, action) ==
    IF action.type = INIT THEN action.payload.model ELSE state

\* a next marking of the same value taken for the present object
markingReducer_sameByValue(state, action) ==
    CASE action.type = INIT -> [value |-> action.payload.model.m0, same |-> FALSE]
      [] action.type = FIRE -> [value |-> action.payload.nextMarking,
                                same |-> action.payload.nextMarking = state]
      [] OTHER -> [value |-> state, same |-> TRUE]

\* A wrapped reducer's result is a value and whether it is the very object it
\* was given (result === state): model.m0 and the object the fire function
\* built are other objects than the present one, the default case hands the
\* state back.
markingReducer(state, action) ==
    CASE action.type = INIT -> [value |-> action.payload.model.m0, same |-> FALSE]
      [] action.type = FIRE -> [value |-> action.payload.nextMarking, same |-> FALSE]
      [] OTHER -> [value |-> state, same |-> TRUE]

\* the new entry put in front
sequenceReducer_prepends(state, action) ==
    CASE action.type = INIT -> [value |-> <<>>, same |-> FALSE]
      [] action.type = FIRE ->
            [value |-> <<[transition |-> action.payload.transition.name,
                          binding |-> action.payload.binding]>> \o state,
             same |-> FALSE]
      [] OTHER -> [value |-> state, same |-> TRUE]

\* [] and state.concat(...) are new arrays
sequenceReducer(state, action) ==
    CASE action.type = INIT -> [value |-> <<>>, same |-> FALSE]
      [] action.type = FIRE ->
            [value |-> state \o <<[transition |-> action.payload.transition.name,
                                   binding |-> action.payload.binding]>>,
             same |-> FALSE]
      [] OTHER -> [value |-> state, same |-> TRUE]

newHistory(past, present, future) ==
    [past |-> past, present |-> present, future |-> future]

\* an undo that forgets the present instead of keeping it for redo
undoable_undoForgets(history, action, res) ==
    CASE action.type = UNDO ->
            IF history.past = <<>> THEN history
            ELSE newHistory(Front(history.past), Last(history.past), history.future)
      [] action.type = REDO ->
            IF history.future = <<>> THEN history
            ELSE newHistory(history.past \o <<history.present>>, Head(history.future),
                            Tail(history.future))
      [] action.type = CLEAR_HISTORY ->
            newHistory(<<>>, history.present, <<>>)
      [] OTHER ->
            IF res.same THEN history
            ELSE newHistory(history.past \o <<history.present>>, res.value, <<>>)

\* a new present that keeps the future
undoable_keepsFuture(history, action, res) ==
    CASE action.type = UNDO ->
            IF history.past = <<>> THEN history
            ELSE newHistory(Front(history.past), Last(history.past),
                            <<history.present>> \o history.future)
      [] action.type = REDO ->
            IF history.future = <<>> THEN history
            ELSE newHistory(history.past \o <<history.present>>, Head(history.future),
                            Tail(history.future))
      [] action.type = CLEAR_HISTORY ->
            newHistory(<<>>, history.present, <<>>)
      [] OTHER ->
            IF res.same THEN history
            ELSE newHistory(history.past \o <<history.present>>, res.value, history.future)

\* undoable(reducer) of redux-undo with no configuration: no limit, no filter.
\* res is reducer(history.present, action).
undoable(history, action, res) ==
    CASE action.type = UNDO ->
            IF history.past = <<>> THEN history
            ELSE newHistory(Front(history.past), Last(history.past),
                            <<history.present>> \o history.future)
      [] action.type = REDO ->
            IF history.future = <<>> THEN history
            ELSE newHistory(history.past \o <<history.present>>, Head(history.future),
                            Tail(history.future))
      [] action.type = CLEAR_HISTORY ->
            newHistory(<<>>, history.present, <<>>)
      [] OTHER ->
            IF res.same THEN history
            ELSE newHistory(history.past \o <<history.present>>, res.value, <<>>)

\* the sequence slice left out of undo
reducers_undoMarkingOnly(state, action) ==
    [model    |-> modelReducer(state.model, action),
     marking  |-> undoable(state.marking, action,
                           markingReducer(state.marking.present, action)),
     sequence |-> IF action.type = UNDO THEN state.sequence
                  ELSE undoable(state.sequence, action,
                                sequenceReducer(state.sequence.present, action))]

\* combineReducers({ model, marking: undoable(marking), sequence: undoable(sequence) })
reducers(state, action) ==
    [model    |-> modelReducer(state.model, action),
     marking  |-> undoable(state.marking, action,
                           markingReducer(state.marking.present, action)),
     sequence |-> undoable(state.sequence, action,
                           sequenceReducer(state.sequence.present, action))]

---------------------------------------------------------------------------
(* The store and the PetriNet facade *)

\* the state createStore(reducers) starts from
initialState ==
    [model    |-> initialModel,
     marking  |-> newHistory(<<>>, EmptyObject, <<>>),
     sequence |-> newHistory(<<>>, <<>>, <<>>)]

\* marking() and sequence() on a store state
markingOf(state) == state.marking.present

sequenceOf(state) == state.sequence.present

\* a subscriber is called with the store holding the next state
notify(state) == state

\* store.dispatch: the root reducer gives the next state, the store takes it,
\* then the subscribers run
dispatch(state, action) ==
    LET next == reducers(state, action)
    IN  [state |-> next, seen |-> notify(next)]

\* the history left as the INIT action made it
PetriNet_noClear(mdl) == dispatch(initialState, init(mdl))

\* the constructor's store: created, subscribed, INIT dispatched, history cleared
PetriNet(mdl) ==
    LET d1 == dispatch(initialState, init(mdl))
    IN  dispatch(d1.state, ActionCreators_clearHistory)

\* a chooseBinding of options.fireSemantics: the name of a precondition place of
\* the transition that holds a token, "none" when there is none
customChooseBinding(t, m) ==
    LET holding == {p \in DOMAIN t.preconditions : p \in DOMAIN m /\ m[p] > 0}
    IN  IF holding = {} THEN "none" ELSE CHOOSE p \in holding : TRUE

\* chooseBinding !== null ? chooseBinding(transition, marking) : null
bindingOf(transition, m) ==
    IF chooseBinding # Null THEN customChooseBinding(transition, m) ELSE Null

\* the error of the fire function caught and the marking dispatched as it is
fire_dispatchesAnyway(state, wasSeen, transition) ==
    LET m       == state.marking.present
        binding == bindingOf(transition, m)
        a       == fireTransition(transition, m, binding)
        kept    == [type |-> FIRE,
                    payload |-> [transition |-> transition, binding |-> binding,
                                 nextMarking |-> m]]
        d       == dispatch(state, IF a.threw THEN kept ELSE a.action)
    IN  [state |-> d.state, seen |-> d.seen, threw |-> a.threw]

\* the configured chooseBinding never called
fire_nullBinding(state, wasSeen, transition) ==
    LET m       == state.marking.present
        binding == Null
        a       == fireTransition(transition, m, binding)
    IN  IF a.threw
        THEN [state |-> state, seen |-> wasSeen, threw |-> TRUE]
        ELSE LET d == dispatch(state, a.action)
             IN  [state |-> d.state, seen |-> d.seen, threw |-> FALSE]

\* fire(transition): threw tells that the call left with an error
fire(state, wasSeen, transition) ==
    LET m       == state.marking.present
        binding == bindingOf(transition, m)
        a       == fireTransition(transition, m, binding)
    IN  IF a.threw
        THEN [state |-> state, seen |-> wasSeen, threw |-> TRUE]
        ELSE LET d == dispatch(state, a.action)
             IN  [state |-> d.state, seen |-> d.seen, threw |-> FALSE]

undo(state) == dispatch(state, ActionCreators_undo)

redo(state) == dispatch(state, ActionCreators_redo)

---------------------------------------------------------------------------
(* Models *)

T(name, pre, post) == [name |-> name, preconditions |-> pre, postconditions |-> post]

\* example/src/app.js
ExampleTransitions ==
    << T("t1", ("p0" :> 1), ("p1" :> 2)),
       T("t0", ("p1" :> 1), ("p0" :> 1)) >>

ExampleModel ==
    [places |-> Places, transitions |-> ExampleTransitions,
     m0 |-> ("p0" :> 1) @@ ("p1" :> 0)]

\* the example's transitions and four more: one that gives back what it takes,
\* one that only takes, one whose precondition and one whose postcondition is on
\* a place the model does not declare
MoreTransitions ==
    ExampleTransitions \o
    << T("t2", ("p0" :> 1), ("p0" :> 1)),
       T("t3", ("p1" :> 2), EmptyObject),
       T("t4", ("p2" :> 1), ("p0" :> 1)),
       T("t5", ("p0" :> 1), ("p2" :> 1)) >>

Models ==
    {ExampleModel} \cup
    {[places |-> Places, transitions |-> MoreTransitions, m0 |-> m] :
        m \in [Range(Places) -> 0..MaxTok0]}

---------------------------------------------------------------------------
(* The simulator: one PetriNet instance and the calls made on it *)

State == [model |-> model, marking |-> marking, sequence |-> sequence]

NotCalled == [called |-> FALSE, fireable |-> FALSE, result |-> Returned(EmptyObject)]

NoStores == <<>>

PatStart(st) ==
    [phase |-> "fires", n |-> 0, k |-> 0, m |-> markingOf(st), s |-> sequenceOf(st)]

PatOff == [phase |-> "off", n |-> 0, k |-> 0, m |-> EmptyObject, s |-> <<>>]

\* op: "fire" (a successful fire), "fireFailed", "undo", "redo"; st: the state after it
PatNext(p, op, st) ==
    CASE op = "fireFailed" -> p
      [] op = "fire" ->
            IF p.phase = "fires"
            THEN [p EXCEPT !.n = p.n + 1, !.m = markingOf(st), !.s = sequenceOf(st)]
            ELSE PatOff
      [] op = "undo" ->
            IF p.phase = "fires" /\ p.n >= 1 THEN [p EXCEPT !.phase = "undos", !.k = 1]
            ELSE IF p.phase = "undos" /\ p.k < p.n THEN [p EXCEPT !.k = p.k + 1]
            ELSE PatOff
      [] op = "redo" ->
            IF p.phase = "undos" /\ p.k = p.n THEN [p EXCEPT !.phase = "redos", !.k = 1]
            ELSE IF p.phase = "redos" /\ p.k < p.n THEN [p EXCEPT !.k = p.k + 1]
            ELSE PatOff

\* the scenario: fire(t1), fire(t1), fire(t0), undo() on the example model
ScenNext(s, call) ==
    CASE s = 0 /\ call = <<"fire", "t1">> -> 1
      [] s = 1 /\ call = <<"fire", "t1">> -> 2
      [] s = 2 /\ call = <<"fire", "t0">> -> 3
      [] s = 3 /\ call = <<"undo", "">> -> 4
      [] OTHER -> -1

Init ==
    /\ \E mdl \in Models :
          LET c == PetriNet(mdl)
          IN  /\ model = c.state.model
              /\ marking = c.state.marking
              /\ sequence = c.state.sequence
              /\ seen = c.seen
              /\ pat = PatStart(c.state)
              /\ scen = IF mdl = ExampleModel THEN 0 ELSE -1
    /\ lastOp = "new"
    /\ branched = 0
    /\ chooseBinding = Null
    /\ stores = NoStores
    /\ arg_t = ExampleTransitions[1]
    /\ arg_marking = EmptyObject
    /\ ret = NotCalled

Fire(t) ==
    /\ Len(sequence.present) < MaxFires
    /\ LET r  == fire(State, seen, t)
           op == IF r.threw THEN "fireFailed" ELSE "fire"
       IN  /\ model' = r.state.model
           /\ marking' = r.state.marking
           /\ sequence' = r.state.sequence
           /\ seen' = r.seen
           /\ lastOp' = op
           /\ pat' = PatNext(pat, op, r.state)
           /\ branched' = IF op = "fire" /\ lastOp = "undo" THEN 1 ELSE 0
    /\ scen' = ScenNext(scen, <<"fire", t.name>>)
    /\ UNCHANGED callVars
    /\ UNCHANGED otherVars

Undo ==
    /\ LET r == undo(State)
       IN  /\ model' = r.state.model
           /\ marking' = r.state.marking
           /\ sequence' = r.state.sequence
           /\ seen' = r.seen
           /\ pat' = PatNext(pat, "undo", r.state)
    /\ lastOp' = "undo"
    /\ branched' = 0
    /\ scen' = ScenNext(scen, <<"undo", "">>)
    /\ UNCHANGED callVars
    /\ UNCHANGED otherVars

Redo ==
    /\ LET r == redo(State)
       IN  /\ model' = r.state.model
           /\ marking' = r.state.marking
           /\ sequence' = r.state.sequence
           /\ seen' = r.seen
           /\ pat' = PatNext(pat, "redo", r.state)
    /\ lastOp' = "redo"
    /\ branched' = IF branched = 1 THEN 2 ELSE 0
    /\ scen' = ScenNext(scen, <<"redo", "">>)
    /\ UNCHANGED callVars
    /\ UNCHANGED otherVars

FireSome == \E t \in Range(model.transitions) : Fire(t)

Next == FireSome \/ Undo \/ Redo

Spec == Init /\ [][Next]_vars

---------------------------------------------------------------------------
(* The default semantics called directly on a transition and a marking *)

PartialMaps(S, V) == UNION {[D -> V] : D \in SUBSET S}

TransitionUniverse ==
    {T("t", pre, post) : pre \in PartialMaps(PlaceIds, 1..MaxW),
                         post \in PartialMaps(PlaceIds, 1..MaxW)}

MarkingUniverse == PartialMaps(PlaceIds, 0..MaxTok)

InitFire ==
    /\ arg_t \in TransitionUniverse
    /\ arg_marking \in MarkingUniverse
    /\ ret = NotCalled
    /\ LET c == PetriNet(ExampleModel)
       IN  /\ model = c.state.model
           /\ marking = c.state.marking
           /\ sequence = c.state.sequence
           /\ seen = c.seen
           /\ pat = PatStart(c.state)
    /\ scen = 0
    /\ lastOp = "new"
    /\ branched = 0
    /\ chooseBinding = Null
    /\ stores = NoStores

CallDefault ==
    /\ ~ret.called
    /\ ret' = [called |-> TRUE,
               fireable |-> defaultIsFireable(arg_t, arg_marking),
               result |-> defaultFire(arg_t, arg_marking)]
    /\ UNCHANGED <<arg_t, arg_marking>>
    /\ UNCHANGED storeVars
    /\ UNCHANGED ghostVars
    /\ UNCHANGED otherVars

NextFire == CallDefault

SpecFire == InitFire /\ [][NextFire]_vars

---------------------------------------------------------------------------
(* The simulator with a chooseBinding configured or not *)

ModelsBinding == {mdl \in Models : mdl.m0["p0"] = 1}

InitBinding ==
    /\ \E mdl \in ModelsBinding :
          LET c == PetriNet(mdl)
          IN  /\ model = c.state.model
              /\ marking = c.state.marking
              /\ sequence = c.state.sequence
              /\ seen = c.seen
              /\ pat = PatStart(c.state)
              /\ scen = IF mdl = ExampleModel THEN 0 ELSE -1
    /\ chooseBinding \in {Null, "customChooseBinding"}
    /\ lastOp = "new"
    /\ branched = 0
    /\ stores = NoStores
    /\ arg_t = ExampleTransitions[1]
    /\ arg_marking = EmptyObject
    /\ ret = NotCalled

SpecBinding == InitBinding /\ [][Next]_vars

---------------------------------------------------------------------------
(* Two simulators *)

Instances == {1, 2}

\* one store for all instances
storeOf_shared(instance) == 1

\* this.store = createStore(reducers): the store of an instance is its own
storeOf(instance) == instance

\* new PetriNet(..., mdl1), then new PetriNet(..., mdl2)
TwoPetriNets(mdl1, mdl2) ==
    (storeOf(2) :> PetriNet(mdl2).state) @@ (storeOf(1) :> PetriNet(mdl1).state)

\* what instance i reads with this.store.getState()
StateOf(i) == stores[storeOf(i)]

InitTwo ==
    /\ \E mdl \in ModelsBinding : stores = TwoPetriNets(ExampleModel, mdl)
    /\ LET c == PetriNet(ExampleModel)
       IN  /\ model = c.state.model
           /\ marking = c.state.marking
           /\ sequence = c.state.sequence
           /\ seen = c.seen
           /\ pat = PatStart(c.state)
    /\ scen = 0
    /\ lastOp = "new"
    /\ branched = 0
    /\ chooseBinding = Null
    /\ arg_t = ExampleTransitions[1]
    /\ arg_marking = EmptyObject
    /\ ret = NotCalled

FireOn(i, t) ==
    /\ Len(StateOf(i).sequence.present) < MaxFires
    /\ stores' = [stores EXCEPT ![storeOf(i)] = fire(StateOf(i), StateOf(i), t).state]
    /\ UNCHANGED <<storeVars, ghostVars, callVars, chooseBinding>>

UndoOn(i) ==
    /\ stores' = [stores EXCEPT ![storeOf(i)] = undo(StateOf(i)).state]
    /\ UNCHANGED <<storeVars, ghostVars, callVars, chooseBinding>>

RedoOn(i) ==
    /\ stores' = [stores EXCEPT ![storeOf(i)] = redo(StateOf(i)).state]
    /\ UNCHANGED <<storeVars, ghostVars, callVars, chooseBinding>>

FireSomeOn(i) == \E t \in Range(StateOf(i).model.transitions) : FireOn(i, t)

CallOn(i) == FireSomeOn(i) \/ UndoOn(i) \/ RedoOn(i)

NextTwo == \E i \in Instances : CallOn(i)

SpecTwo == InitTwo /\ [][NextTwo]_vars

---------------------------------------------------------------------------
(* Properties *)

\* a weight that is not given counts as 0
Weight(w, p) == IF p \in DOMAIN w THEN w[p] ELSE 0

RECURSIVE TotalOver(_, _)
TotalOver(o, S) ==
    IF S = {} THEN 0
    ELSE LET p == CHOOSE q \in S : TRUE IN o[p] + TotalOver(o, S \ {p})

Total(o) == TotalOver(o, DOMAIN o)

NonNegative(m) == \A p \in DOMAIN m : m[p] >= 0

\* every marking the store holds
Held == {marking.present} \cup Range(marking.past) \cup Range(marking.future)

\* the marking keys cover the places of the transition
Covers(m, t) == (DOMAIN t.preconditions \cup DOMAIN t.postconditions) \subseteq DOMAIN m

\* C1: token conservation. When the default isFireable(t, m) is true on a marking
\* whose keys include every place of t's preconditions and postconditions, the
\* default fire(t, m) returns next with next[p] = m[p] - pre[p] + post[p] on every
\* place p of m (a weight not given is 0), so
\* sum(next) = sum(m) - sum(pre) + sum(post).
C1_TokenConservation ==
    (ret.called /\ Covers(arg_marking, arg_t) /\ ret.fireable) =>
        /\ ~ret.result.threw
        /\ DOMAIN ret.result.value = DOMAIN arg_marking
        /\ \A p \in DOMAIN arg_marking :
              ret.result.value[p] = arg_marking[p] - Weight(arg_t.preconditions, p)
                                      + Weight(arg_t.postconditions, p)
        /\ Total(ret.result.value) = Total(arg_marking) - Total(arg_t.preconditions)
                                       + Total(arg_t.postconditions)

C1_Witness ==
    /\ ret.called
    /\ ret.fireable
    /\ DOMAIN arg_marking = Range(Places)
    /\ arg_t.preconditions = ("p0" :> 1)
    /\ arg_t.postconditions = ("p1" :> 2)
    /\ arg_marking = ("p0" :> 1) @@ ("p1" :> 0)
    /\ ret.result.value = ("p0" :> 0) @@ ("p1" :> 2)

\* firing t on the present marking would leave some place with less than 0 tokens
Overdraws(t, m) ==
    \E p \in DOMAIN m : m[p] - Weight(t.preconditions, p) + Weight(t.postconditions, p) < 0

\* C2: non-negativity. From a model whose m0 has no negative entry, every marking
\* the store holds (marking.present, every entry of marking.past and of
\* marking.future) has only token counts >= 0 after any fire/undo/redo calls, and
\* a fire that would make some place negative fails and produces no marking.
C2_NonNegativity ==
    /\ \A m \in Held : NonNegative(m)
    /\ [][ /\ \A m \in Held' : NonNegative(m)
           /\ \A t \in Range(model.transitions) :
                (Fire(t) /\ Overdraws(t, marking.present)) =>
                    (lastOp' = "fireFailed" /\ marking' = marking) ]_vars

C2_Witness ==
    /\ lastOp = "fireFailed"
    /\ marking.past # <<>>
    /\ \E p \in DOMAIN marking.present : marking.present[p] = 0

\* C3: undo/redo inverse law. After n successful fire() calls made right after
\* construction, n undo() calls bring marking() back to m0 and sequence() back
\* to the empty sequence, and n redo() calls then restore the marking and the
\* sequence that held after the n-th fire.
C3_UndoRedoInverse ==
    /\ (pat.phase = "undos" /\ pat.k = pat.n) =>
          (marking.present = model.m0 /\ sequence.present = <<>>)
    /\ (pat.phase = "redos" /\ pat.k = pat.n) =>
          (marking.present = pat.m /\ sequence.present = pat.s)

C3_Witness ==
    /\ pat.phase = "redos"
    /\ pat.n = 2
    /\ pat.k = 2
    /\ Len(sequence.present) = 2
    /\ marking.present # model.m0

\* C4: branch invalidation. After undo() calls followed by one successful
\* fire(), the future of the marking history and of the sequence history is
\* empty, and a redo() made then changes nothing of the store.
C4_BranchInvalidation ==
    [][ /\ (branched' = 1) => (marking'.future = <<>> /\ sequence'.future = <<>>)
        /\ (branched = 1 /\ branched' = 2) => UNCHANGED storeVars ]_vars

C4_Witness ==
    /\ branched = 2
    /\ lastOp = "redo"
    /\ marking.past # <<>>

\* C5: all-or-nothing fire. When fire(transition) fails, nothing is dispatched
\* and the store is as before the call: the model, marking.present,
\* sequence.present and the past and future of both histories; no subscriber
\* is notified.
C5_FailedFireChangesNothing ==
    [][ (lastOp' = "fireFailed") => UNCHANGED <<model, marking, sequence, seen>> ]_vars

C5_Witness ==
    /\ lastOp = "fireFailed"
    /\ marking.past # <<>>
    /\ marking.future # <<>>

\* some precondition place of t holds fewer tokens in m than t takes from it
Short(t, m) ==
    \E p \in DOMAIN t.preconditions : p \in DOMAIN m /\ m[p] < t.preconditions[p]

\* C6: with the default semantics fire(t) fails whenever some precondition place
\* p of t has marking[p] < preconditions[p] in the current marking, also when t
\* has a postcondition on the same place p.
C6_NotEnabledFails ==
    [][ \A t \in Range(model.transitions) :
          (Fire(t) /\ Short(t, marking.present)) => lastOp' = "fireFailed" ]_vars

\* C7: the default fire fails with the unknown-place error, and returns no
\* marking, when a precondition of the transition is on a place that is not a
\* key of the marking.
C7_UnknownPlaceFails ==
    (ret.called /\ \E p \in DOMAIN arg_t.preconditions : p \notin DOMAIN arg_marking) =>
        (ret.result.threw /\ ret.result.error = "UnknownPlace")

\* C8: marking key-set invariant. The keys of marking.present, and of every
\* marking in past and future, are exactly model.places in every state fire,
\* undo and redo reach.
C8_MarkingKeys == \A m \in Held : DOMAIN m = Range(model.places)

C8_Witness ==
    /\ lastOp = "fire"
    /\ Len(marking.past) = 2
    /\ \E i \in 1..Len(sequence.present) : sequence.present[i].transition = "t5"

\* the subscriber last saw the state the store holds
SeenIsState == seen = [model |-> model, marking |-> marking, sequence |-> sequence]

\* C9: synchronous, atomic visibility. When fire(), undo() or redo() returns,
\* and at every notification of the subscriber, marking() and sequence() are
\* those of the state after the whole action; the marking slice is never
\* changed by a call that leaves the sequence slice as it was, nor the reverse.
C9_AtomicVisibility ==
    /\ SeenIsState
    /\ [][ /\ SeenIsState'
           /\ (marking' # marking) <=> (sequence' # sequence) ]_vars

C9_Witness ==
    /\ lastOp = "undo"
    /\ marking.future # <<>>
    /\ seen.marking.present = marking.present
    /\ seen.sequence.present = sequence.present
    /\ Len(sequence.future) = Len(marking.future)

Entry(name) == [transition |-> name, binding |-> Null]

\* C10: the example model. fire(t1) gives marking {p0:0, p1:2} and sequence
\* [t1]; a second fire(t1) fails and changes nothing; fire(t0) then gives
\* {p0:1, p1:1}; undo() then restores marking {p0:0, p1:2} and sequence [t1].
C10_ExampleScenario ==
    /\ (scen \in {1, 2, 4}) =>
          /\ marking.present = ("p0" :> 0) @@ ("p1" :> 2)
          /\ sequence.present = <<Entry("t1")>>
          /\ marking.past = <<("p0" :> 1) @@ ("p1" :> 0)>>
          /\ sequence.past = << <<>> >>
    /\ (scen = 1) => lastOp = "fire"
    /\ (scen = 2) => (lastOp = "fireFailed" /\ marking.future = <<>> /\ sequence.future = <<>>)
    /\ (scen = 3) =>
          /\ lastOp = "fire"
          /\ marking.present = ("p0" :> 1) @@ ("p1" :> 1)
          /\ sequence.present = <<Entry("t1"), Entry("t0")>>
    /\ (scen = 4) =>
          /\ marking.future = <<("p0" :> 1) @@ ("p1" :> 1)>>
          /\ sequence.future = << <<Entry("t1"), Entry("t0")>> >>

C10_Witness == scen = 4 /\ lastOp = "undo" /\ model = ExampleModel

\* C12: history alignment. After any fire/undo/redo calls, also fires whose next
\* marking has the value of the current one, the marking history and the
\* sequence history have pasts of the same length and futures of the same length.
C12_HistoryAlignment ==
    /\ Len(marking.past) = Len(sequence.past)
    /\ Len(marking.future) = Len(sequence.future)

C12_Witness ==
    /\ lastOp = "undo"
    /\ Len(marking.past) = 1
    /\ Len(marking.future) = 1
    /\ marking.present = marking.past[1]
    /\ marking.present # marking.future[1]

\* the step is a successful fire of an enabled transition
FiredEnabled ==
    /\ lastOp' = "fire"
    /\ \E t \in Range(model.transitions) : Fire(t) /\ defaultIsFireable(t, marking.present)

\* C13 as claimed: a Fire action whose nextMarking has the value of the current
\* marking leaves the marking history (past, present, future) as it was.
C13_NoEntryForSameValue ==
    [][ (FiredEnabled /\ marking'.present = marking.present) => marking' = marking ]_vars

\* C13 as amended: a history entry is left out only when the present object is
\* handed back (undo() on an empty past, redo() on an empty future: past, present
\* and future of both slices stay); every successful fire adds one entry to the
\* marking history and to the sequence history and empties their futures, also
\* when nextMarking has the value of the current marking.
C13_EntryForEveryFire ==
    [][ /\ (lastOp' = "fire") =>
              /\ marking'.past = marking.past \o <<marking.present>>
              /\ sequence'.past = sequence.past \o <<sequence.present>>
              /\ marking'.future = <<>>
              /\ sequence'.future = <<>>
        /\ (lastOp' = "undo" /\ marking.past = <<>>) => UNCHANGED storeVars
        /\ (lastOp' = "redo" /\ marking.future = <<>>) => UNCHANGED storeVars ]_vars

C13_Witness ==
    /\ lastOp = "fire"
    /\ Len(marking.past) = 2
    /\ marking.present = marking.past[2]
    /\ sequence.present[2].transition = "t2"
    /\ marking.present["p0"] >= 1

\* the floor: no past, no future, the initial marking and no fired transition
AtFloor == marking.present = model.m0 /\ sequence.present = <<>>

\* C14: the initial state is the floor of history. Right after construction past
\* and future of both slices are empty, marking() is m0 and sequence() is empty;
\* whenever the marking past is empty, marking() is m0 and sequence() is empty;
\* undo() on an empty past and redo() on an empty future change nothing.
C14_InitialStateIsFloor ==
    [][ /\ (lastOp = "new") =>
              /\ marking.past = <<>> /\ marking.future = <<>>
              /\ sequence.past = <<>> /\ sequence.future = <<>>
              /\ AtFloor
        /\ (marking.past = <<>>) => AtFloor
        /\ (marking'.past = <<>>) => AtFloor'
        /\ (lastOp' = "undo" /\ marking.past = <<>>) => UNCHANGED <<model, marking, sequence>>
        /\ (lastOp' = "redo" /\ marking.future = <<>>) => UNCHANGED <<model, marking, sequence>>
      ]_vars

C14_Witness ==
    /\ lastOp = "undo"
    /\ marking.past = <<>>
    /\ Len(marking.future) = 2
    /\ marking.future[2] # model.m0

\* the transition of the model that an entry of the sequence names
Named(name) == CHOOSE t \in Range(model.transitions) : t.name = name

\* the default fire applied from m for the entries of seq, in order
RECURSIVE Replay(_, _)
Replay(m, seq) ==
    IF seq = <<>> THEN Returned(m)
    ELSE LET r == defaultFire(Named(Head(seq).transition), m)
         IN  IF r.threw THEN r ELSE Replay(r.value, Tail(seq))

\* C16: replay consistency. In every state fire/undo/redo reach, sequence() is
\* as long as the past of the sequence history, and marking() is the marking the
\* default fire gives from m0 for the transitions named in sequence(), in order.
C16_ReplayConsistency ==
    /\ Len(sequence.present) = Len(sequence.past)
    /\ Len(sequence.present) = Len(marking.past)
    /\ ~Replay(model.m0, sequence.present).threw
    /\ Replay(model.m0, sequence.present).value = marking.present

C16_Witness ==
    /\ lastOp = "redo"
    /\ Len(sequence.present) = 2
    /\ sequence.present[1].transition # sequence.present[2].transition
    /\ marking.present # model.m0

\* a history read as one list: past, present, future
Timeline(h) == h.past \o <<h.present>> \o h.future

\* C17: undo and redo only move the cursor. For both slices undo() and redo()
\* leave past ++ [present] ++ future as it was; undo() moves one entry from past
\* to future when past is not empty, redo() one entry back when future is not
\* empty, so either one undoes the other and past, present and future are
\* restored.
C17_UndoRedoMoveCursor ==
    [][ (lastOp' \in {"undo", "redo"}) =>
          /\ Timeline(marking') = Timeline(marking)
          /\ Timeline(sequence') = Timeline(sequence)
          /\ Len(marking'.past) = Len(sequence'.past)
          /\ (lastOp' = "undo") =>
                Len(marking'.past) = IF marking.past = <<>> THEN 0 ELSE Len(marking.past) - 1
          /\ (lastOp' = "redo") =>
                Len(marking'.past) = IF marking.future = <<>> THEN Len(marking.past)
                                     ELSE Len(marking.past) + 1 ]_vars

C17_Witness ==
    /\ lastOp = "redo"
    /\ Len(marking.past) = 1
    /\ Len(marking.future) = 1
    /\ marking.past[1] # marking.present
    /\ marking.future[1] # marking.present

\* some place of the postconditions is no key of the marking
PostOutside(t, m) == \E p \in DOMAIN t.postconditions : p \notin DOMAIN m

\* C18: the default fire computes over the keys of the marking only. A
\* postcondition on a place that is no key of the marking does not make the fire
\* fail (it succeeds when no key of the marking would go below 0): the marking
\* returned has exactly the keys of the marking given, each with
\* m[p] - pre[p] + post[p], and the increase of the place outside is dropped.
C18_PostOutsideDropped ==
    (ret.called /\ PostOutside(arg_t, arg_marking) /\ ~Overdraws(arg_t, arg_marking)) =>
        /\ ~ret.result.threw
        /\ DOMAIN ret.result.value = DOMAIN arg_marking
        /\ \A p \in DOMAIN arg_marking :
              ret.result.value[p] = arg_marking[p] - Weight(arg_t.preconditions, p)
                                      + Weight(arg_t.postconditions, p)
        /\ Total(ret.result.value) <
              Total(arg_marking)
                - TotalOver(arg_t.preconditions, DOMAIN arg_t.preconditions \cap DOMAIN arg_marking)
                + Total(arg_t.postconditions)

C18_Witness ==
    /\ ret.called
    /\ arg_marking = ("p0" :> 1) @@ ("p1" :> 0)
    /\ arg_t.preconditions = ("p0" :> 1)
    /\ arg_t.postconditions = ("p1" :> 1) @@ ("p2" :> 2)
    /\ ret.result.value = ("p0" :> 0) @@ ("p1" :> 1)

\* C19: the model slice is changed by Init only. The model of the store is the
\* one the constructor was given, after the clear-history dispatch too, and
\* every fire (successful or failed), undo and redo leaves it as it is.
C19_ModelOnlyByInit ==
    [][ /\ (lastOp = "new") => (model \in Models /\ model.m0 = marking.present)
        /\ model' = model ]_vars

C19_Witness ==
    /\ lastOp = "redo"
    /\ model \in Models
    /\ Len(marking.past) = 2
    /\ marking.present # model.m0

\* C11: instance isolation. Two simulators own separate stores: a fire, undo or
\* redo on one leaves the model, the marking, the sequence and the histories the
\* other reads as they were.
C11_InstanceIsolation ==
    [][ \A i \in Instances : \A j \in Instances \ {i} :
          CallOn(i) => StateOf(j)' = StateOf(j) ]_vars

C11_Witness ==
    /\ DOMAIN stores = Instances
    /\ Len(stores[1].sequence.present) = 2
    /\ stores[1].marking.present # stores[1].model.m0
    /\ stores[2].model # stores[1].model
    /\ stores[2].marking = newHistory(<<>>, stores[2].model.m0, <<>>)
    /\ stores[2].sequence = newHistory(<<>>, <<>>, <<>>)

\* the binding fire(t) uses on marking m
BindingUsed(t, m) ==
    IF chooseBinding = Null THEN Null ELSE customChooseBinding(t, m)

\* C15: each successful fire(t) appends one entry to the end of the sequence,
\* with t's name and the binding used (what chooseBinding(t, current marking)
\* returns when one is configured, null otherwise), and leaves the earlier
\* entries as they are; a failed fire appends nothing; Init leaves the sequence
\* empty.
C15_FireAppendsEntry ==
    [][ /\ (lastOp = "new") => sequence.present = <<>>
        /\ (lastOp' = "fire") =>
              \E t \in Range(model.transitions) :
                  /\ Fire(t)
                  /\ sequence'.present =
                        sequence.present \o
                        <<[transition |-> t.name,
                           binding |-> BindingUsed(t, marking.present)]>>
        /\ (lastOp' = "fireFailed") => sequence'.present = sequence.present ]_vars

C15_Witness ==
    /\ lastOp = "fire"
    /\ chooseBinding # Null
    /\ Len(sequence.present) = 2
    /\ sequence.present[1] = [transition |-> "t1", binding |-> "p0"]
    /\ sequence.present[2] = [transition |-> "t0", binding |-> "p1"]

====
